---- MODULE Spec2Model ----
(***************************************************************************)
(* LogisticRegression (src/models/logistic-regression.js) and the entry    *)
(* scripts that drive it.                                                  *)
(*                                                                         *)
(* Numbers.  The class computes on float32 tensors and JavaScript doubles. *)
(* The model keeps the structure of IEEE arithmetic at a reduced width:    *)
(* a finite number x is the integer x * Scale, a result whose magnitude    *)
(* exceeds Cap overflows to an infinity, and NaN, +Infinity, -Infinity and *)
(* JavaScript's undefined are values of their own, with the IEEE rules for *)
(* them (Inf - Inf, 0 * Inf, 0 / 0 are NaN; every comparison with NaN is   *)
(* false).  sigmoid and log are interpolated from tables.                  *)
(***************************************************************************)
EXTENDS Integers, Sequences, FiniteSets, TLC

\* ------------------------------------------------------------ numbers

Scale == 1000
Cap == 30000

PInf == Cap + 1
NInf == 0 - (Cap + 1)
NaN == Cap + 2
Undefined == Cap + 3

One == Scale
Half == Scale \div 2

Abs(n) == IF n < 0 THEN 0 - n ELSE n

IsNaN(x) == x = NaN \/ x = Undefined
IsInf(x) == x = PInf \/ x = NInf
IsFinite(x) == x >= 0 - Cap /\ x <= Cap

\* the sign of a number that is not NaN: -1, 0 or 1
Sign(x) == IF x > 0 THEN 1 ELSE IF x < 0 THEN 0 - 1 ELSE 0

\* an integer result, overflowing to an infinity
Norm(n) == IF n > Cap THEN PInf ELSE IF n < 0 - Cap THEN NInf ELSE n

\* integer quotient rounded toward zero
Quot(a, b) ==
    IF (a >= 0) = (b > 0) THEN Abs(a) \div Abs(b) ELSE 0 - (Abs(a) \div Abs(b))

fNeg(a) == IF IsNaN(a) THEN NaN ELSE 0 - a

fAdd(a, b) ==
    IF IsNaN(a) \/ IsNaN(b) THEN NaN
    ELSE IF IsInf(a) /\ IsInf(b) THEN (IF a = b THEN a ELSE NaN)
    ELSE IF IsInf(a) THEN a
    ELSE IF IsInf(b) THEN b
    ELSE Norm(a + b)

fSub(a, b) == fAdd(a, fNeg(b))

fMul(a, b) ==
    IF IsNaN(a) \/ IsNaN(b) THEN NaN
    ELSE IF IsInf(a) \/ IsInf(b)
         THEN (IF a = 0 \/ b = 0 THEN NaN
               ELSE IF Sign(a) = Sign(b) THEN PInf ELSE NInf)
    ELSE Norm(Quot(a * b, Scale))

fDiv(a, b) ==
    IF IsNaN(a) \/ IsNaN(b) THEN NaN
    ELSE IF IsInf(a) /\ IsInf(b) THEN NaN
    ELSE IF IsInf(a) THEN (IF b >= 0 THEN a ELSE 0 - a)
    ELSE IF IsInf(b) THEN 0
    ELSE IF b = 0 THEN (IF a = 0 THEN NaN ELSE IF a > 0 THEN PInf ELSE NInf)
    ELSE Norm(Quot(a * Scale, b))

\* a > b in IEEE arithmetic: false when either side is NaN
fGreater(a, b) == ~IsNaN(a) /\ ~IsNaN(b) /\ a > b

\* a < b in JavaScript, on integers and undefined
jsLess(a, b) == ~IsNaN(a) /\ ~IsNaN(b) /\ a < b

\* the integer square root of n, known to lie in lo..hi
RECURSIVE ISqrtIn(_, _, _)
ISqrtIn(n, lo, hi) ==
    IF lo >= hi THEN lo
    ELSE LET mid == (lo + hi + 1) \div 2
         IN  IF mid * mid <= n THEN ISqrtIn(n, mid, hi) ELSE ISqrtIn(n, lo, mid - 1)

\* x.pow(0.5)
fSqrt(a) ==
    IF IsNaN(a) \/ a < 0 THEN NaN
    ELSE IF a = PInf THEN PInf
    ELSE ISqrtIn(a * Scale, 0, Cap)

\* sigmoid at 0, 1, 2, ... in thousandths; 1 from 8 on
SigmoidTable == <<500, 731, 881, 953, 982, 993, 998, 999, 1000>>

SigmoidPos(z) ==
    LET k == z \div Scale
        f == z % Scale
    IN  IF k + 2 > Len(SigmoidTable) THEN One
        ELSE Quot((SigmoidTable[k + 1] * (Scale - f) + SigmoidTable[k + 2] * f) * One,
                  Scale * 1000)

fSigmoid(z) ==
    IF IsNaN(z) THEN NaN
    ELSE IF z = PInf THEN One
    ELSE IF z = NInf THEN 0
    ELSE IF z >= 0 THEN SigmoidPos(z) ELSE One - SigmoidPos(0 - z)

\* natural logarithm at the listed arguments, both in thousandths
LogArgs == <<1, 2, 5, 10, 20, 50, 100, 200, 300, 400, 500, 600, 700, 800, 900, 1000>>
LogVals == <<0 - 6908, 0 - 6215, 0 - 5298, 0 - 4605, 0 - 3912, 0 - 2996, 0 - 2303,
             0 - 1609, 0 - 1204, 0 - 916, 0 - 693, 0 - 511, 0 - 357, 0 - 223,
             0 - 105, 0>>

LogUnit(p) ==
    LET q == Quot(p * 1000, Scale)
        k == CHOOSE i \in 1..(Len(LogArgs) - 1) : LogArgs[i] <= q /\ q <= LogArgs[i + 1]
        lo == LogArgs[k]
        hi == LogArgs[k + 1]
    IN  Quot((LogVals[k] * (hi - q) + LogVals[k + 1] * (q - lo)) * Scale,
             (hi - lo) * 1000)

fLog(p) ==
    IF IsNaN(p) \/ p < 0 THEN NaN
    ELSE IF p = PInf THEN PInf
    ELSE IF p = 0 THEN NInf
    ELSE IF Quot(p * 1000, Scale) < 1 THEN Quot((0 - 6908) * Scale, 1000)
    ELSE IF p >= One THEN Norm(p - One)
    ELSE LogUnit(p)

\* ------------------------------------------------------------ tensors
\* A matrix is a sequence of rows, a row a sequence of numbers; a column
\* vector (labels, weights, predictions) is a sequence of numbers.

RECURSIVE Sum(_)
Sum(s) == IF s = <<>> THEN 0 ELSE fAdd(Sum(SubSeq(s, 1, Len(s) - 1)), s[Len(s)])

Reverse(s) == [k \in 1..Len(s) |-> s[Len(s) + 1 - k]]

Last(s) == s[Len(s)]

NumCols(X) == IF X = <<>> THEN 0 ELSE Len(X[1])

\* row . w
Dot(row, w) == Sum([k \in 1..Len(row) |-> fMul(row[k], w[k])])

\* sigmoid(X.matMul(w))
Probabilities(X, w) == [r \in 1..Len(X) |-> fSigmoid(Dot(X[r], w))]

\* a slice that forgets where it starts (a variant, to test EpochOrder)
SliceFromTop(X, start, size) == SubSeq(X, 1, size)

\* X.slice([start, 0], [size, -1])
Slice(X, start, size) == SubSeq(X, start + 1, start + size)

\* moments(features, 0)
Moments(X) ==
    LET n == Len(X) * Scale
        mu == [c \in 1..NumCols(X) |-> fDiv(Sum([r \in 1..Len(X) |-> X[r][c]]), n)]
        dev(r, c) == fSub(X[r][c], mu[c])
    IN  [mean |-> mu,
         variance |-> [c \in 1..NumCols(X) |->
                          fDiv(Sum([r \in 1..Len(X) |-> fMul(dev(r, c), dev(r, c))]), n)]]

\* features.sub(mean).div(variance.pow(0.5))
Scaled(X, mean, variance) ==
    [r \in 1..Len(X) |->
        [c \in 1..Len(X[r]) |-> fDiv(fSub(X[r][c], mean[c]), fSqrt(variance[c]))]]

\* ones([rows, 1]).concat(features, 1)
WithOnes(X) == [r \in 1..Len(X) |-> <<One>> \o X[r]]

\* ------------------------------------------------------------ bounds and inputs

MaxRows == 3
MaxTestRows == 2
MaxIterations == 2
MaxCalls == 3

ModelIds == {1, 2}

\* references to options objects: the caller's, and the default object
\* made for instance m when its options argument is left out
Caller == 0
OptionRefs == {Caller} \cup ModelIds

FeatureValues == {0, 2 * Scale}
LabelValues == {0, One}

\* matrices of one feature column, and label columns, of the given heights
Matrices(lo, hi) ==
    UNION {[1..n -> {<<v>> : v \in FeatureValues}] : n \in lo..hi}
Columns(lo, hi) == UNION {[1..n -> LabelValues] : n \in lo..hi}

\* the data the caller loads: one low first row, the others high; a label
\* for every row, or a label column of another height
TrainingFeatures ==
    {X \in Matrices(1, MaxRows) :
        \A r \in 1..Len(X) : X[r] = <<IF r = 1 THEN 0 ELSE 2 * Scale>>}
TrainingSets ==
    {d \in [features : TrainingFeatures, labels : Columns(1, MaxRows)] :
        Len(d.labels) # Len(d.features) => \A r \in 1..Len(d.labels) : d.labels[r] = One}

OptionFields == {"learningRate", "iterations", "batchSize", "decisionBoundary"}

\* an options object with all four fields
FullOptions ==
    [learningRate : {2 * Scale},
     iterations : {0, MaxIterations},
     batchSize : {1, 2, MaxRows + 1},
     decisionBoundary : {Half}]

\* an options object without the fields of left
Without(o, left) == [f \in OptionFields |-> IF f \in left THEN Undefined ELSE o[f]]

\* the options objects a caller writes: all four fields, or some left out
OptionLiterals ==
    FullOptions \cup
    {Without([learningRate |-> 2 * Scale, iterations |-> MaxIterations,
              batchSize |-> 1, decisionBoundary |-> Half], left) :
        left \in SUBSET OptionFields}

DefaultIterations == 1000

\* the default value of the constructor's options parameter
DefaultOptions ==
    [learningRate |-> Scale \div 10, iterations |-> DefaultIterations,
     batchSize |-> 1, decisionBoundary |-> Half]

NoOptions ==
    [learningRate |-> Undefined, iterations |-> Undefined,
     batchSize |-> Undefined, decisionBoundary |-> Undefined]

NoTensor == <<>>

\* ------------------------------------------------------------ state

VARIABLES
    csv,         \* the caller's loaded data: [features, labels]
    heap,        \* the options objects, by reference
    models,      \* the LogisticRegression instances
    pc,          \* where the program is: idle, inside train(), or ended
    ret,         \* the last predict/test/preprocessFeatures call and its result
    given,       \* per instance, the options argument as the constructor got it
    recorded,    \* per instance, the costs in the order recordCost computed them
    trace,       \* the steps of the current (or last completed) epoch
    trainCalls,  \* per instance, the train() calls that returned
    calls        \* the constructor, train() and plot calls made so far

vars == <<csv, heap, models, pc, ret, given, recorded, trace, trainCalls, calls>>

NoModel ==
    [made |-> FALSE, features |-> <<>>, labels |-> <<>>, options |-> 0,
     costHistory |-> <<>>, weights |-> <<>>, mean |-> NoTensor, variance |-> NoTensor]

Idle == [at |-> "idle", m |-> 0, i |-> 0, j |-> 0, batchQuantity |-> 0]
Threw(m) == [at |-> "threw", m |-> m, i |-> 0, j |-> 0, batchQuantity |-> 0]
Exited(m) == [at |-> "exit", m |-> m, i |-> 0, j |-> 0, batchQuantity |-> 0]

NoRet == [op |-> "none", m |-> 0, x |-> <<>>, y |-> <<>>, out |-> <<>>]

Init ==
    /\ csv \in TrainingSets
    /\ \E o \in OptionLiterals :
          heap = [r \in OptionRefs |-> IF r = Caller THEN o ELSE NoOptions]
    /\ models = [m \in ModelIds |-> NoModel]
    /\ pc = Idle
    /\ ret = NoRet
    /\ given = [m \in ModelIds |-> [omitted |-> TRUE, value |-> NoOptions]]
    /\ recorded = [m \in ModelIds |-> <<>>]
    /\ trace = <<>>
    /\ trainCalls = [m \in ModelIds |-> 0]
    /\ calls = 0

\* this.options of instance m
Options(m) == heap[models[m].options]

\* ------------------------------------------------------------ the class

\* standardize(features): the transformed features and the moments it stores
standardize(self, X) ==
    LET mo == Moments(X)
    IN  [out |-> Scaled(X, mo.mean, mo.variance),
         mean |-> mo.mean, variance |-> mo.variance]

\* preprocessing that computes the moments on every call (a variant, to test
\* MomentsComputedOnce)
preprocessFeaturesAfresh(self, X) ==
    LET std == standardize(self, X)
    IN  [out |-> WithOnes(std.out), mean |-> std.mean, variance |-> std.variance]

\* preprocessFeatures(features): the processed features and this.mean,
\* this.variance after the call
preprocessFeatures(self, X) ==
    LET std == IF self.mean # NoTensor /\ self.variance # NoTensor
               THEN [out |-> Scaled(X, self.mean, self.variance),
                     mean |-> self.mean, variance |-> self.variance]
               ELSE standardize(self, X)
    IN  [out |-> WithOnes(std.out), mean |-> std.mean, variance |-> std.variance]

\* gradientDescent(features, labels): the new this.weights
gradientDescent(w, X, y, learningRate) ==
    LET currentPredictions == Probabilities(X, w)
        differences == [r \in 1..Len(X) |-> fSub(currentPredictions[r], y[r])]
        gradients == [k \in 1..Len(w) |->
                        fDiv(Sum([r \in 1..Len(X) |-> fMul(X[r][k], differences[r])]),
                             Len(X) * Scale)]
    IN  [k \in 1..Len(w) |-> fSub(w[k], fMul(gradients[k], learningRate))]

\* the cross-entropy recordCost computes
CrossEntropy(X, y, w) ==
    LET predictions == Probabilities(X, w)
        termOne == Sum([r \in 1..Len(X) |-> fMul(y[r], fLog(predictions[r]))])
        termTwo == Sum([r \in 1..Len(X) |->
                         fMul(fAdd(fMul(y[r], 0 - One), One),
                              fLog(fAdd(fMul(predictions[r], 0 - One), One)))])
    IN  fMul(fDiv(fAdd(termOne, termTwo), Len(X) * Scale), 0 - One)

\* a history that keeps the last cost only (a variant, to test
\* CostHistoryLength)
UnshiftOverwriting(history, cost) == <<cost>>

\* a history that grows at its end (a variant, to test CostHistoryNewestFirst)
UnshiftAtEnd(history, cost) == Append(history, cost)

\* costHistory.unshift(cost)
Unshift(history, cost) == <<cost>> \o history

\* a controller that also halves on an equal cost (a variant, to test
\* LearningRateControl)
optimizeLearningRateUnlessFallen(history, learningRate) ==
    IF Len(history) < 2 THEN learningRate
    ELSE IF fGreater(history[1], history[2]) \/ history[1] = history[2]
         THEN fDiv(learningRate, 2 * Scale)
         ELSE fMul(learningRate, (105 * Scale) \div 100)

\* optimizeLearningRate(): the new options.learningRate
optimizeLearningRate(history, learningRate) ==
    IF Len(history) < 2 THEN learningRate
    ELSE IF fGreater(history[1], history[2])
         THEN fDiv(learningRate, 2 * Scale)
         ELSE fMul(learningRate, (105 * Scale) \div 100)

\* labels that are 1 on the boundary too (a variant, to test PredictThreshold)
predictedLabelsFromBoundary(processed, w, decisionBoundary) ==
    LET p == Probabilities(processed, w)
    IN  [r \in 1..Len(processed) |->
            IF fGreater(p[r], decisionBoundary) \/ p[r] = decisionBoundary
            THEN One ELSE 0]

\* the labels predict() returns from the processed observations
predictedLabels(processed, w, decisionBoundary) ==
    LET p == Probabilities(processed, w)
    IN  [r \in 1..Len(processed) |-> IF fGreater(p[r], decisionBoundary) THEN One ELSE 0]

\* an accuracy from signed differences (a variant, to test TestAccuracyOfRows)
accuracySigned(predictions, testLabels) ==
    LET incorrectPredictions ==
            Sum([r \in 1..Len(predictions) |-> fSub(predictions[r], testLabels[r])])
        rows == Len(predictions) * Scale
    IN  fDiv(fSub(rows, incorrectPredictions), rows)

\* the accuracy test() returns from the predictions
accuracy(predictions, testLabels) ==
    LET incorrectPredictions ==
            Sum([r \in 1..Len(predictions) |->
                   Abs(fSub(predictions[r], testLabels[r]))])
        rows == Len(predictions) * Scale
    IN  fDiv(fSub(rows, incorrectPredictions), rows)

\* Math.floor(rows / batchSize)
BatchQuantity(rows, batchSize) ==
    IF IsNaN(batchSize) THEN NaN ELSE rows \div batchSize

\* the loop heads of train(): where control is once epoch i is to start
LoopHead(m, i, batchQuantity, iterations) ==
    IF jsLess(i, iterations)
    THEN [at |-> IF jsLess(0, batchQuantity) THEN "gradientDescent" ELSE "recordCost",
          m |-> m, i |-> i, j |-> 0, batchQuantity |-> batchQuantity]
    ELSE Idle

\* ------------------------------------------------------------ operations

\* new LogisticRegression(features, labels, options), options being the
\* object ref, which holds opts
ConstructWith(m, ref, opts, omitted) ==
    /\ pc.at = "idle"
    /\ ret = NoRet
    /\ calls < MaxCalls
    /\ calls' = calls + 1
    /\ ~models[m].made
    /\ \A n \in ModelIds : n < m => models[n].made
    /\ LET pre == preprocessFeatures(NoModel, csv.features)
       IN  models' = [models EXCEPT ![m] =
                        [made |-> TRUE, features |-> pre.out, labels |-> csv.labels,
                         options |-> ref, costHistory |-> <<>>,
                         weights |-> [k \in 1..NumCols(pre.out) |-> 0],
                         mean |-> pre.mean, variance |-> pre.variance]]
    /\ heap' = [heap EXCEPT ![ref] = opts]
    /\ given' = [given EXCEPT ![m] = [omitted |-> omitted, value |-> opts]]
    /\ ret' = NoRet
    /\ UNCHANGED <<csv, pc, recorded, trace, trainCalls>>

\* the options argument left out: the parameter's default is a fresh object
ConstructDefault == \E m \in ModelIds : ConstructWith(m, m, DefaultOptions, TRUE)

\* the options argument the caller's options object, passed by reference
ConstructOptions == \E m \in ModelIds : ConstructWith(m, Caller, heap[Caller], FALSE)

\* train(), up to the first loop head
TrainCall ==
    \E m \in ModelIds :
        /\ pc.at = "idle"
        /\ ret = NoRet
        /\ models[m].made
        /\ calls < MaxCalls
        /\ calls' = calls + 1
        /\ IsNaN(Options(m).iterations) \/ Options(m).iterations <= MaxIterations
        /\ pc' = LoopHead(m, 0,
                          BatchQuantity(Len(models[m].features), Options(m).batchSize),
                          Options(m).iterations)
        /\ trainCalls' = [trainCalls EXCEPT ![m] = IF pc' = Idle THEN @ + 1 ELSE @]
        /\ trace' = <<>>
        /\ ret' = NoRet
        /\ UNCHANGED <<csv, heap, models, given, recorded>>

\* the steps of an epoch are logged; a new epoch starts a new log
Logged(event) ==
    IF trace # <<>> /\ Last(trace).op = "optimizeLearningRate"
    THEN <<event>>
    ELSE Append(trace, event)

Event(op, start, count, before, after) ==
    [op |-> op, m |-> pc.m, i |-> pc.i, j |-> pc.j, start |-> start, count |-> count,
     before |-> before, after |-> after]

\* one pass of the inner loop of train(): the two slices and gradientDescent
GradientStep ==
    /\ pc.at = "gradientDescent"
    /\ LET m == pc.m
           batchSize == Options(m).batchSize
           startIndex == pc.j * batchSize
           featureSlice == Slice(models[m].features, startIndex, batchSize)
           labelSlice == Slice(models[m].labels, startIndex, batchSize)
           w == gradientDescent(models[m].weights, featureSlice, labelSlice,
                                Options(m).learningRate)
       IN  IF \/ startIndex + batchSize > Len(models[m].labels)
              \/ Options(m).learningRate = Undefined
           THEN \* labels.slice past the last row, or mul(undefined): the library throws
                /\ pc' = Threw(m)
                /\ UNCHANGED <<models, trace>>
           ELSE /\ models' = [models EXCEPT ![m].weights = w]
                /\ trace' = Logged(Event("gradientDescent", startIndex, batchSize,
                                         models[m].weights, w))
                /\ pc' = IF jsLess(pc.j + 1, pc.batchQuantity)
                         THEN [pc EXCEPT !.j = @ + 1]
                         ELSE [pc EXCEPT !.at = "recordCost"]
    /\ UNCHANGED <<csv, heap, ret, given, recorded, trainCalls, calls>>

\* recordCost()
RecordCost ==
    /\ pc.at = "recordCost"
    /\ LET m == pc.m
           cost == CrossEntropy(models[m].features, models[m].labels, models[m].weights)
       IN  IF Len(models[m].labels) # Len(models[m].features)
           THEN \* matMul of [1, labels] by [rows, 1]: the library throws
                /\ pc' = Threw(m)
                /\ UNCHANGED <<models, recorded, trace>>
           ELSE /\ models' = [models EXCEPT
                                ![m].costHistory = Unshift(models[m].costHistory, cost)]
                /\ recorded' = [recorded EXCEPT ![m] = Append(@, cost)]
                /\ trace' = Logged(Event("recordCost", 0, Len(models[m].features),
                                         models[m].weights, models[m].weights))
                /\ pc' = [pc EXCEPT !.at = "optimizeLearningRate"]
    /\ UNCHANGED <<csv, heap, ret, given, trainCalls, calls>>

\* optimizeLearningRate(), then i++ and the outer loop's test
OptimizeLearningRate ==
    /\ pc.at = "optimizeLearningRate"
    /\ LET m == pc.m
       IN  /\ heap' = [heap EXCEPT ![models[m].options].learningRate =
                          optimizeLearningRate(models[m].costHistory, @)]
           /\ trace' = Logged(Event("optimizeLearningRate", 0, 0,
                                    models[m].weights, models[m].weights))
           /\ pc' = LoopHead(m, pc.i + 1, pc.batchQuantity, Options(m).iterations)
           /\ trainCalls' = [trainCalls EXCEPT ![m] = IF pc' = Idle THEN @ + 1 ELSE @]
    /\ UNCHANGED <<csv, models, ret, given, recorded, calls>>

\* What the tensor library does with an array of no rows is not in the
\* source: it refuses it, or it computes on zero rows.
Refusals(X) == IF X = <<>> THEN BOOLEAN ELSE {FALSE}

\* preprocessFeatures(features), called from outside
Preprocess ==
    \E m \in ModelIds, X \in Matrices(0, MaxTestRows), refused \in BOOLEAN :
        /\ pc.at = "idle"
        /\ ret = NoRet
        /\ models[m].made
        /\ refused \in Refusals(X)
        /\ LET pre == preprocessFeatures(models[m], X)
           IN  /\ models' = [models EXCEPT ![m].mean = pre.mean,
                                           ![m].variance = pre.variance]
               /\ ret' = [op |-> "preprocessFeatures", m |-> m, x |-> X, y |-> <<>>,
                          out |-> IF refused THEN <<>> ELSE pre.out]
               /\ pc' = IF refused THEN Threw(m) ELSE pc
        /\ UNCHANGED <<csv, heap, given, recorded, trace, trainCalls, calls>>

\* predict(observations)
Predict ==
    \E m \in ModelIds, X \in Matrices(0, MaxTestRows), refused \in BOOLEAN :
        /\ pc.at = "idle"
        /\ ret = NoRet
        /\ models[m].made
        /\ refused \in Refusals(X)
        /\ LET pre == preprocessFeatures(models[m], X)
               \* greater(undefined): the library throws
               threw == refused \/ Options(m).decisionBoundary = Undefined
           IN  /\ models' = [models EXCEPT ![m].mean = pre.mean,
                                           ![m].variance = pre.variance]
               /\ ret' = [op |-> "predict", m |-> m, x |-> X, y |-> <<>>,
                          out |-> IF threw THEN <<>>
                                  ELSE predictedLabels(pre.out, models[m].weights,
                                                       Options(m).decisionBoundary)]
               /\ pc' = IF threw THEN Threw(m) ELSE pc
        /\ UNCHANGED <<csv, heap, given, recorded, trace, trainCalls, calls>>

\* test(testFeatures, testLabels), on labels with one row per row of features
Test ==
    \E m \in ModelIds, X \in Matrices(0, MaxTestRows), y \in Columns(0, MaxTestRows),
       refused \in BOOLEAN :
        /\ pc.at = "idle"
        /\ ret = NoRet
        /\ models[m].made
        /\ Len(y) = Len(X)
        /\ refused \in Refusals(X)
        /\ LET pre == preprocessFeatures(models[m], X)
               threw == refused \/ Options(m).decisionBoundary = Undefined
               predictions == predictedLabels(pre.out, models[m].weights,
                                              Options(m).decisionBoundary)
           IN  /\ models' = [models EXCEPT ![m].mean = pre.mean,
                                           ![m].variance = pre.variance]
               /\ ret' = [op |-> "test", m |-> m, x |-> X, y |-> y,
                          out |-> IF threw THEN <<>>
                                  ELSE <<accuracy(predictions, y)>>]
               /\ pc' = IF threw THEN Threw(m) ELSE pc
        /\ UNCHANGED <<csv, heap, given, recorded, trace, trainCalls, calls>>

\* the plotting script's last statement: plot({x: costHistory.reverse(), ...});
\* reverse() reverses the instance's array in place, and the script ends
Plot ==
    \E m \in ModelIds :
        /\ pc.at = "idle"
        /\ ret = NoRet
        /\ models[m].made
        /\ calls < MaxCalls
        /\ calls' = calls + 1
        /\ models' = [models EXCEPT ![m].costHistory = Reverse(@)]
        /\ pc' = Exited(m)
        /\ ret' = NoRet
        /\ UNCHANGED <<csv, heap, given, recorded, trace, trainCalls>>

\* the caller has used the returned value and goes on (the scripts log the
\* accuracy test() returned)
Resume ==
    /\ pc.at = "idle"
    /\ ret # NoRet
    /\ ret' = NoRet
    /\ UNCHANGED <<csv, heap, models, pc, given, recorded, trace, trainCalls, calls>>

Next ==
    \/ ConstructDefault
    \/ ConstructOptions
    \/ TrainCall
    \/ GradientStep
    \/ RecordCost
    \/ OptimizeLearningRate
    \/ Preprocess
    \/ Predict
    \/ Test
    \/ Plot
    \/ Resume

Spec == Init /\ [][Next]_vars

\* ------------------------------------------------------------ claims

Made == {m \in ModelIds : models[m].made}

\* a call of predict, test or preprocessFeatures on m has returned
Returned(op) == ret.op = op /\ pc.at # "threw"

\* the epochs of the running train() call on m whose cost is recorded
EpochsRecorded(m) ==
    IF pc.m = m /\ pc.at \in {"gradientDescent", "recordCost"} THEN pc.i
    ELSE IF pc.m = m /\ pc.at = "optimizeLearningRate" THEN pc.i + 1
    ELSE 0

\* C1: with iterations = N and a batch size, the cost history has N entries
\* for every train() call that returned and one for every epoch completed
\* since: k * N after k calls, nothing removed or overwritten.
CostHistoryLength ==
    \A m \in Made :
        (/\ ~IsNaN(Options(m).iterations)
         /\ ~IsNaN(Options(m).batchSize)
         /\ pc # Threw(m))
        => Len(models[m].costHistory)
             = trainCalls[m] * Options(m).iterations + EpochsRecorded(m)

\* two train() calls of N > 0 epochs have returned
CostHistoryDoubled ==
    \E m \in Made :
        /\ trainCalls[m] = 2
        /\ Options(m).iterations = MaxIterations
        /\ Options(m).batchSize = 1
        /\ pc = Idle
        /\ Len(models[m].costHistory) = 2 * MaxIterations

\* C2: the options object the caller passed to a constructor still holds
\* what it held when it was passed.
CallerOptionsKept ==
    \A m \in Made : ~given[m].omitted => heap[Caller] = given[m].value

\* the costs before the one recorded last on m, and that one
CostNow(m) == recorded[m][Len(recorded[m])]
CostBefore(m) == recorded[m][Len(recorded[m]) - 1]

\* C3: at the end of an epoch the controller leaves learningRate alone when
\* fewer than two costs are recorded on the instance, halves it when this
\* epoch's cost is strictly greater than the preceding epoch's, and
\* multiplies it by 1.05 otherwise.
LearningRateControl ==
    [][pc.at = "optimizeLearningRate" =>
         LET m == pc.m
             before == Options(m).learningRate
             after == heap'[models[m].options].learningRate
         IN  IF Len(recorded[m]) < 2 THEN after = before
             ELSE IF ~IsNaN(CostNow(m)) /\ ~IsNaN(CostBefore(m))
                     /\ CostNow(m) > CostBefore(m)
                  THEN after = fDiv(before, 2 * Scale)
                  ELSE after = fMul(before, (105 * Scale) \div 100)]_vars

\* the controller has halved a rate after a cost that rose, in the first
\* epoch of a second train() call
LearningRateHalved ==
    \E m \in Made :
        /\ trace # <<>>
        /\ Last(trace).op = "optimizeLearningRate"
        /\ Last(trace).m = m
        /\ Last(trace).i = 0
        /\ trainCalls[m] >= 1
        /\ Len(recorded[m]) >= 2
        /\ IsFinite(CostNow(m)) /\ IsFinite(CostBefore(m))
        /\ CostNow(m) > CostBefore(m)
        /\ IsFinite(Options(m).learningRate)
        /\ Options(m).learningRate < given[m].value.learningRate

\* C4 as claimed: the cost history is in chronological order, the k-th entry
\* the cost of the k-th completed epoch.
CostHistoryChronological ==
    \A m \in Made : models[m].costHistory = recorded[m]

\* C4 as amended: the cost history is newest first, the k-th entry the cost
\* of the k-th most recent epoch; it is chronological once the plotting
\* script has reversed it.
CostHistoryNewestFirst ==
    \A m \in Made :
        models[m].costHistory =
            IF pc = Exited(m) THEN recorded[m] ELSE Reverse(recorded[m])

\* three epochs with costs that differ are recorded and nothing is reversed
CostHistoryOfDistinctCosts ==
    \E m \in Made :
        /\ pc.at # "exit"
        /\ Len(recorded[m]) >= 3
        /\ recorded[m][1] # recorded[m][Len(recorded[m])]

\* the moments of the training data, which the constructor's preprocessing
\* call computes
TrainingMoments == Moments(csv.features)

\* row r of X standardized with the moments instance m stores, after a 1
StoredStandardized(m, X, r) ==
    <<One>> \o [c \in 1..Len(X[r]) |->
                  fDiv(fSub(X[r][c], models[m].mean[c]), fSqrt(models[m].variance[c]))]

\* C5: the stored mean and variance are those of the training data, whatever
\* was called since construction, and preprocessing standardizes with them.
MomentsComputedOnce ==
    /\ \A m \in Made :
          /\ models[m].mean = TrainingMoments.mean
          /\ models[m].variance = TrainingMoments.variance
    /\ Returned("preprocessFeatures") =>
          ret.out = [r \in 1..Len(ret.x) |-> StoredStandardized(ret.m, ret.x, r)]

\* preprocessFeatures has returned, on a trained instance, for data whose own
\* moments are not the stored ones
PreprocessedOtherData ==
    /\ Returned("preprocessFeatures")
    /\ Len(ret.x) = 2
    /\ trainCalls[ret.m] >= 1
    /\ Len(csv.features) = 3
    /\ Moments(ret.x) # TrainingMoments
    /\ \A r \in 1..Len(ret.out) : IsFinite(ret.out[r][2])

\* the class predict() gives row r of the observations X on instance m
PredictedClass(m, X, r) ==
    LET p == fSigmoid(Dot(StoredStandardized(m, X, r), models[m].weights))
    IN  IF ~IsNaN(p) /\ p > Options(m).decisionBoundary THEN One ELSE 0

\* the rows of the test set whose predicted class differs from the label
Mismatches(m, X, y) == Cardinality({r \in 1..Len(X) : PredictedClass(m, X, r) # y[r]})

\* test() has returned (rows - mismatches) / rows, a value in [0, 1]
AccuracyReturned ==
    /\ pc.at # "threw"
    /\ Len(ret.out) = 1
    /\ ret.out[1] >= 0
    /\ ret.out[1] <= One
    /\ ret.out[1] = fDiv((Len(ret.x) - Mismatches(ret.m, ret.x, ret.y)) * Scale,
                         Len(ret.x) * Scale)

\* C6 as claimed: test() returns (rows - mismatches) / rows, in [0, 1], for
\* every test set with a 0/1 label per row, one of zero rows included.
TestAccuracyInUnitInterval ==
    (ret.op = "test" /\ Options(ret.m).decisionBoundary # Undefined)
        => AccuracyReturned

\* C6 as amended: it does so for every such test set of at least one row.
TestAccuracyOfRows ==
    (ret.op = "test" /\ Options(ret.m).decisionBoundary # Undefined /\ Len(ret.x) >= 1)
        => AccuracyReturned

\* test() has returned one half: one of two rows is mismatched
TestHalfRight ==
    /\ Returned("test")
    /\ Len(ret.x) = 2
    /\ trainCalls[ret.m] >= 1
    /\ Mismatches(ret.m, ret.x, ret.y) = 1
    /\ ret.out = <<Half>>

\* C7: predict() returns one label per row, in row order: 1 where the row's
\* probability is strictly greater than decisionBoundary, else 0; with
\* weights all zero and a boundary of 0.5, 0 for every row.
PredictThreshold ==
    Returned("predict") =>
        /\ Len(ret.out) = Len(ret.x)
        /\ \A r \in 1..Len(ret.x) : ret.out[r] = PredictedClass(ret.m, ret.x, r)
        /\ (/\ \A k \in 1..Len(models[ret.m].weights) : models[ret.m].weights[k] = 0
            /\ Options(ret.m).decisionBoundary = Half)
           => \A r \in 1..Len(ret.x) : ret.out[r] = 0

\* predict() has returned 0 for the first row and 1 for the second
PredictedBothClasses ==
    /\ Returned("predict")
    /\ ret.x = <<<<0>>, <<2 * Scale>>>>
    /\ ret.out = <<0, One>>

\* predict() has returned for an instance whose weights are all zero
PredictedWithZeroWeights ==
    /\ Returned("predict")
    /\ Len(ret.x) = 2
    /\ \A k \in 1..Len(models[ret.m].weights) : models[ret.m].weights[k] = 0

\* C8: an option the caller left out has its documented default.
DocumentedDefaults ==
    \A m \in Made :
        /\ Options(m).learningRate # Undefined
        /\ \A f \in {"iterations", "batchSize", "decisionBoundary"} :
              (given[m].omitted \/ given[m].value[f] = Undefined)
                  => Options(m)[f] = DefaultOptions[f]

\* C9: no instance exists whose features and labels differ in row count,
\* so train() never runs on such a pair.
RowCountsAgree ==
    \A m \in Made : Len(models[m].labels) = Len(models[m].features)

\* C10: an epoch is floor(R / b) gradient steps on the batches 0, 1, ... in
\* order, step j on rows [j * b, (j + 1) * b) from the weights step j - 1
\* left, then recordCost over all R rows, then optimizeLearningRate, and
\* only then the next epoch; with no batch the weights never change.
EpochOrder ==
    (trace # <<>> /\ ~IsNaN(Options(trace[1].m).batchSize)) =>
        LET m == trace[1].m
            R == Len(models[m].features)
            b == Options(m).batchSize
            Q == R \div b
            complete == Last(trace).op = "optimizeLearningRate"
        IN  /\ Len(trace) <= Q + 2
            /\ models[m].weights = Last(trace).after
            /\ Q = 0 => \A k \in 1..Len(models[m].weights) : models[m].weights[k] = 0
            /\ (pc.m = m /\ pc.at = "gradientDescent") =>
                  IF complete THEN pc.i = trace[1].i + 1 /\ pc.j = 0
                  ELSE pc.i = trace[1].i /\ pc.j = Len(trace)
            /\ \A k \in 1..Len(trace) :
                  /\ trace[k].m = m
                  /\ trace[k].i = trace[1].i
                  /\ trace[k].op = IF k <= Q THEN "gradientDescent"
                                   ELSE IF k = Q + 1 THEN "recordCost"
                                   ELSE "optimizeLearningRate"
                  /\ k > 1 => trace[k].before = trace[k - 1].after
                  /\ k <= Q =>
                        /\ trace[k].j = k - 1
                        /\ trace[k].start = (k - 1) * b
                        /\ trace[k].count = b
                        /\ ~complete =>
                              trace[k].after =
                                  gradientDescent(
                                      trace[k].before,
                                      SubSeq(models[m].features, (k - 1) * b + 1, k * b),
                                      SubSeq(models[m].labels, (k - 1) * b + 1, k * b),
                                      Options(m).learningRate)
                  /\ k > Q => trace[k].after = trace[k].before
                  /\ k = Q + 1 => trace[k].count = R

\* a second epoch of three single-row steps, each moving the weights, is done
EpochOfThreeSteps ==
    /\ Len(trace) = 5
    /\ Last(trace).op = "optimizeLearningRate"
    /\ trace[1].i = 1
    /\ Options(trace[1].m).batchSize = 1
    /\ \A k \in 1..3 : trace[k].after # trace[k].before

\* an epoch on three rows in batches of two is done: the third row is left out
EpochDroppingLastRow ==
    /\ trace # <<>>
    /\ Last(trace).op = "optimizeLearningRate"
    /\ Len(models[trace[1].m].features) = 3
    /\ Options(trace[1].m).batchSize = 2
    /\ Len(trace) = 3

====
